---- MODULE Spec2Model ----
(***************************************************************************)
(* Model of the symptom-analysis core of Eco_Scan (medical_analyzer.py and *)
(* the /analyze handler of app.py).                                        *)
(*                                                                         *)
(* Text is modelled character by character: a Python str is a sequence of  *)
(* one-character strings, so that lower(), strip(), split(), the `in`      *)
(* operator and the regular expressions of the parser are computed on the  *)
(* characters, as the code computes them.                                  *)
(***************************************************************************)
EXTENDS Integers, Sequences, FiniteSets, TLC

\* ------------------------------------------------------------------------
\* Python string primitives
\* ------------------------------------------------------------------------

UpperChars ==
    <<"A","B","C","D","E","F","G","H","I","J","K","L","M",
      "N","O","P","Q","R","S","T","U","V","W","X","Y","Z">>

LowerChars ==
    <<"a","b","c","d","e","f","g","h","i","j","k","l","m",
      "n","o","p","q","r","s","t","u","v","w","x","y","z">>

\* str.lower() on one character
LowerChar(c) ==
    IF \E i \in 1..26 : UpperChars[i] = c
    THEN LowerChars[CHOOSE i \in 1..26 : UpperChars[i] = c]
    ELSE c

\* str.upper() on one character (used only to build inputs)
UpperChar(c) ==
    IF \E i \in 1..26 : LowerChars[i] = c
    THEN UpperChars[CHOOSE i \in 1..26 : LowerChars[i] = c]
    ELSE c

\* str.lower()
Lower(s) == [i \in 1..Len(s) |-> LowerChar(s[i])]

Upper(s) == [i \in 1..Len(s) |-> UpperChar(s[i])]

\* str.title()-like mixed case: upper-case every character at an odd index
MixedCase(s) == [i \in 1..Len(s) |-> IF i % 2 = 1 THEN UpperChar(s[i]) ELSE s[i]]

\* str.isspace() / regex \s on one character
IsSpace(c) == c \in {" ", "\n", "\t"}

\* str.isdigit() / regex \d on one character
IsDigit(c) == c \in {"0","1","2","3","4","5","6","7","8","9"}

MinOf(S) == CHOOSE x \in S : \A y \in S : x <= y

\* the literal p occurs in s at index i
MatchAt(s, p, i) ==
    /\ i >= 1
    /\ i + Len(p) - 1 <= Len(s)
    /\ \A k \in 1..Len(p) : s[i + k - 1] = p[k]

\* the literal p occurs in s at index i, ignoring case (re.IGNORECASE)
MatchAtIgnoreCase(s, p, i) ==
    /\ i >= 1
    /\ i + Len(p) - 1 <= Len(s)
    /\ \A k \in 1..Len(p) : LowerChar(s[i + k - 1]) = LowerChar(p[k])

\* Python `p in s` for two str
Contains(s, p) == \E i \in 1..(Len(s) - Len(p) + 1) : MatchAt(s, p, i)

\* first index >= i of s that is not whitespace (Len(s)+1 when there is none):
\* where a greedy \s* started at i stops
RECURSIVE SkipSpace(_, _)
SkipSpace(s, i) == IF i > Len(s) \/ ~IsSpace(s[i]) THEN i ELSE SkipSpace(s, i + 1)

\* last index <= i of s that is not whitespace (0 when there is none)
RECURSIVE SkipSpaceBack(_, _)
SkipSpaceBack(s, i) == IF i < 1 \/ ~IsSpace(s[i]) THEN i ELSE SkipSpaceBack(s, i - 1)

\* str.strip()
Strip(s) == SubSeq(s, SkipSpace(s, 1), SkipSpaceBack(s, Len(s)))

\* first index >= i of s that is not a digit: where a greedy \d+ started at i stops
RECURSIVE SkipDigits(_, _)
SkipDigits(s, i) == IF i > Len(s) \/ ~IsDigit(s[i]) THEN i ELSE SkipDigits(s, i + 1)

\* regex $ without re.MULTILINE: at the end, or just before a final newline
AtDollar(s, i) == i = Len(s) + 1 \/ (i = Len(s) /\ s[i] = "\n")

\* str.split('\n')
RECURSIVE Split(_)
Split(s) ==
    LET nls == {i \in 1..Len(s) : s[i] = "\n"}
    IN  IF nls = {} THEN << s >>
        ELSE LET n == MinOf(nls)
             IN  << SubSeq(s, 1, n - 1) >> \o Split(SubSeq(s, n + 1, Len(s)))

\* concatenation of a sequence of str
RECURSIVE Concat(_)
Concat(ss) == IF ss = << >> THEN << >> ELSE Head(ss) \o Concat(Tail(ss))

\* ------------------------------------------------------------------------
\* Literals of the source
\* ------------------------------------------------------------------------

model_name ==
    <<"g","p","t","-","o","s","s",":","2","0","b">>

GptOss ==
    <<"g","p","t","-","o","s","s">>

S_Error ==
    <<"E","r","r","o","r">>

S_timed_out ==
    <<"t","i","m","e","d"," ","o","u","t">>

MsgNoResponse ==
    <<"U","n","a","b","l","e"," ","t","o"," ","g","e","n","e","r","a","t",
      "e"," ","m","e","d","i","c","a","l"," ","a","n","a","l","y","s","i",
      "s">>

MsgHttpPrefix ==
    <<"E","r","r","o","r"," ","c","o","n","n","e","c","t","i","n","g"," ",
      "t","o"," ","m","e","d","i","c","a","l"," ","A","I",":"," ","H","T",
      "T","P"," ">>

MsgTimeout ==
    <<"M","e","d","i","c","a","l"," ","a","n","a","l","y","s","i","s"," ",
      "t","i","m","e","d"," ","o","u","t","."," ","P","l","e","a","s","e",
      " ","t","r","y"," ","a","g","a","i","n"," ","w","i","t","h"," ","a",
      " ","s","h","o","r","t","e","r"," ","d","e","s","c","r","i","p","t",
      "i","o","n",".">>

MsgExcPrefix ==
    <<"E","r","r","o","r"," ","d","u","r","i","n","g"," ","m","e","d","i",
      "c","a","l"," ","a","n","a","l","y","s","i","s",":"," ">>

H_symptom_analysis ==
    <<"#","#","#"," ","S","Y","M","P","T","O","M"," ","A","N","A","L","Y",
      "S","I","S">>

H_differential_diagnosis ==
    <<"#","#","#"," ","D","I","F","F","E","R","E","N","T","I","A","L"," ",
      "D","I","A","G","N","O","S","I","S">>

H_urgency_assessment ==
    <<"#","#","#"," ","U","R","G","E","N","C","Y"," ","A","S","S","E","S",
      "S","M","E","N","T">>

H_immediate_recommendations ==
    <<"#","#","#"," ","I","M","M","E","D","I","A","T","E"," ","R","E","C",
      "O","M","M","E","N","D","A","T","I","O","N","S">>

H_red_flags ==
    <<"#","#","#"," ","R","E","D"," ","F","L","A","G","S"," ","T","O"," ",
      "W","A","T","C","H"," ","F","O","R">>

H_self_care ==
    <<"#","#","#"," ","S","E","L","F","-","C","A","R","E"," ","M","E","A",
      "S","U","R","E","S">>

H_follow_up ==
    <<"#","#","#"," ","F","O","L","L","O","W","-","U","P"," ","G","U","I",
      "D","A","N","C","E">>

S_hashes ==
    <<"#","#","#">>

S_stars ==
    <<"*","*">>

S_emergency ==
    <<"e","m","e","r","g","e","n","c","y">>

S_urgent ==
    <<"u","r","g","e","n","t">>

S_semi ==
    <<"s","e","m","i">>

S_semi_urgent ==
    <<"s","e","m","i","-","u","r","g","e","n","t">>

S_routine ==
    <<"r","o","u","t","i","n","e">>

ST_ready ==
    <<"r","e","a","d","y">>

ST_model_not_found ==
    <<"m","o","d","e","l","_","n","o","t","_","f","o","u","n","d">>

ST_ollama_not_running ==
    <<"o","l","l","a","m","a","_","n","o","t","_","r","u","n","n","i","n",
      "g">>

ST_connection_error ==
    <<"c","o","n","n","e","c","t","i","o","n","_","e","r","r","o","r">>

disclaimer ==
    <<"\n"," "," "," "," "," "," "," "," "," ","I","M","P","O","R","T","A",
      "N","T",":"," ","T","h","i","s"," ","A","I"," ","p","r","o","v","i",
      "d","e","s"," ","h","e","a","l","t","h"," ","i","n","f","o","r","m",
      "a","t","i","o","n"," ","t","o"," ","h","e","l","p"," ","y","o","u",
      " ","u","n","d","e","r","s","t","a","n","d"," ","s","y","m","p","t",
      "o","m","s",".","\n"," "," "," "," "," "," "," "," ","I","t"," ","i",
      "s"," ","n","o","t"," ","a"," ","m","e","d","i","c","a","l"," ","d",
      "i","a","g","n","o","s","i","s","."," ","F","o","r"," ","h","e","a",
      "l","t","h"," ","c","o","n","c","e","r","n","s",","," ","c","o","n",
      "s","u","l","t"," ","q","u","a","l","i","f","i","e","d"," ","h","e",
      "a","l","t","h","c","a","r","e"," ","p","r","o","v","i","d","e","r",
      "s",".","\n"," "," "," "," "," "," "," "," ","I","n"," ","e","m","e",
      "r","g","e","n","c","i","e","s",","," ","c","o","n","t","a","c","t",
      " ","y","o","u","r"," ","l","o","c","a","l"," ","e","m","e","r","g",
      "e","n","c","y"," ","s","e","r","v","i","c","e","s"," ","i","m","m",
      "e","d","i","a","t","e","l","y",".","\n"," "," "," "," "," "," "," ",
      " ">>

privacy_note ==
    <<"C","o","m","p","l","e","t","e"," ","p","r","i","v","a","c","y"," ",
      "-"," ","a","l","l"," ","a","n","a","l","y","s","i","s"," ","p","e",
      "r","f","o","r","m","e","d"," ","l","o","c","a","l","l","y"," ","o",
      "n"," ","y","o","u","r"," ","d","e","v","i","c","e">>

Name_20b ==
    <<"g","p","t","-","o","s","s",":","2","0","b">>

Name_20b_q4 ==
    <<"g","p","t","-","o","s","s",":","2","0","b","-","q","4">>

Name_120b ==
    <<"g","p","t","-","o","s","s",":","1","2","0","b">>

Name_llama ==
    <<"l","l","a","m","a","3",":","8","b">>

T_full ==
    <<"#","#"," ","C","L","I","N","I","C","A","L"," ","A","S","S","E","S",
      "S","M","E","N","T","\n","\n","#","#","#"," ","S","Y","M","P","T","O",
      "M"," ","A","N","A","L","Y","S","I","S","\n","M","i","l","d"," ","v",
      "i","r","a","l"," ","s","y","m","p","t","o","m","s","\n","\n","#","#",
      "#"," ","D","I","F","F","E","R","E","N","T","I","A","L"," ","D","I",
      "A","G","N","O","S","I","S","\n","1","."," ","*","*","F","l","u","*",
      "*"," ","-"," ","c","o","m","m","o","n"," ","v","i","r","a","l"," ",
      "i","n","f","e","c","t","i","o","n","\n","2","."," ","*","*","C","o",
      "l","d","*","*"," ","-"," ","m","i","l","d"," ","v","i","r","a","l",
      " ","i","n","f","e","c","t","i","o","n","\n","\n","#","#","#"," ","U",
      "R","G","E","N","C","Y"," ","A","S","S","E","S","S","M","E","N","T",
      "\n","T","h","i","s"," ","i","s"," ","a"," ","s","e","m","i","-","u",
      "r","g","e","n","t"," ","c","a","s","e","\n","\n","#","#","#"," ","I",
      "M","M","E","D","I","A","T","E"," ","R","E","C","O","M","M","E","N",
      "D","A","T","I","O","N","S","\n","R","e","s","t","\n","\n","#","#",
      "#"," ","R","E","D"," ","F","L","A","G","S"," ","T","O"," ","W","A",
      "T","C","H"," ","F","O","R","\n","H","i","g","h"," ","f","e","v","e",
      "r","\n","\n","#","#","#"," ","S","E","L","F","-","C","A","R","E"," ",
      "M","E","A","S","U","R","E","S","\n","F","l","u","i","d","s","\n",
      "\n","#","#","#"," ","F","O","L","L","O","W","-","U","P"," ","G","U",
      "I","D","A","N","C","E","\n","S","e","e"," ","a"," ","d","o","c","t",
      "o","r","\n">>

T_emergency ==
    <<"#","#","#"," ","U","R","G","E","N","C","Y"," ","A","S","S","E","S",
      "S","M","E","N","T","\n","*","*","E","M","E","R","G","E","N","C","Y",
      "*","*"," ","-"," ","c","a","l","l"," ","n","o","w">>

T_urgent ==
    <<"#","#","#"," ","U","R","G","E","N","C","Y"," ","A","S","S","E","S",
      "S","M","E","N","T","\n","*","*","U","R","G","E","N","T","*","*"," ",
      "-"," ","c","a","r","e"," ","w","i","t","h","i","n"," ","h","o","u",
      "r","s","\n","#","#","#"," ","I","M","M","E","D","I","A","T","E"," ",
      "R","E","C","O","M","M","E","N","D","A","T","I","O","N","S","\n","G",
      "o"," ","t","o"," ","a"," ","c","l","i","n","i","c"," ","t","o","d",
      "a","y">>

T_error_word ==
    <<"#","#","#"," ","S","Y","M","P","T","O","M"," ","A","N","A","L","Y",
      "S","I","S","\n","E","r","r","o","r","-","p","r","o","n","e"," ","s",
      "e","l","f"," ","d","i","a","g","n","o","s","i","s"," ","i","s"," ",
      "c","o","m","m","o","n","\n","#","#","#"," ","U","R","G","E","N","C",
      "Y"," ","A","S","S","E","S","S","M","E","N","T","\n","R","O","U","T",
      "I","N","E">>

T_prose ==
    <<"I"," ","c","a","n","n","o","t"," ","h","e","l","p"," ","w","i","t",
      "h"," ","t","h","a","t",".">>

\* ------------------------------------------------------------------------
\* Python values that a JSON body can put where the code expects a str
\* ------------------------------------------------------------------------

Str(s) == [type |-> "str", val |-> s]

None == [type |-> "NoneType", val |-> << >>]

EmptyList == [type |-> "list", val |-> << >>]

\* ------------------------------------------------------------------------
\* The one MedicalAnalyzer instance of app.py
\* ------------------------------------------------------------------------

VARIABLES
    medical_analyzer,   \* the fields of the instance, read through self
    frames              \* the parameters and locals of the calls in progress

\* ------------------------------------------------------------------------
\* MedicalAnalyzer: fields set by __init__
\* ------------------------------------------------------------------------

supported_languages == {"en", "es", "fr", "pt", "ar", "hi", "zh", "ru", "sw"}

\* 'not breathing', 'no pulse', 'unconscious', 'unresponsive',
\* 'major bleeding', 'severe burns over large area', 'overdose confirmed',
\* 'active seizure', 'choking right now',
\* 'severe allergic reaction with throat closing'
absolute_emergencies ==
    <<
      <<"n","o","t"," ","b","r","e","a","t","h","i","n","g">>,
      <<"n","o"," ","p","u","l","s","e">>,
      <<"u","n","c","o","n","s","c","i","o","u","s">>,
      <<"u","n","r","e","s","p","o","n","s","i","v","e">>,
      <<"m","a","j","o","r"," ","b","l","e","e","d","i","n","g">>,
      <<"s","e","v","e","r","e"," ","b","u","r","n","s"," ","o","v","e","r",
        " ","l","a","r","g","e"," ","a","r","e","a">>,
      <<"o","v","e","r","d","o","s","e"," ","c","o","n","f","i","r","m","e",
        "d">>,
      <<"a","c","t","i","v","e"," ","s","e","i","z","u","r","e">>,
      <<"c","h","o","k","i","n","g"," ","r","i","g","h","t"," ","n","o","w">>,
      <<"s","e","v","e","r","e"," ","a","l","l","e","r","g","i","c"," ","r",
        "e","a","c","t","i","o","n"," ","w","i","t","h"," ","t","h","r","o",
        "a","t"," ","c","l","o","s","i","n","g">>
    >>

\* the instance as __init__ leaves it: the fields analyze_symptoms reads
MedicalAnalyzer ==
    [model_name           |-> model_name,
     supported_languages  |-> supported_languages,
     absolute_emergencies |-> absolute_emergencies,
     disclaimer           |-> disclaimer]

\* ------------------------------------------------------------------------
\* MedicalAnalyzer.check_absolute_emergency
\* ------------------------------------------------------------------------

\* variant: the phrases are sought in the text as typed, without lower()
check_absolute_emergency_as_typed(symptoms) ==
    \E k \in 1..Len(medical_analyzer.absolute_emergencies) :
        Contains(symptoms, medical_analyzer.absolute_emergencies[k])

check_absolute_emergency(symptoms) ==
    LET symptoms_lower == Lower(symptoms)
    IN  \E k \in 1..Len(medical_analyzer.absolute_emergencies) :
            Contains(symptoms_lower, medical_analyzer.absolute_emergencies[k])

\* ------------------------------------------------------------------------
\* MedicalAnalyzer.parse_llm_analysis
\* ------------------------------------------------------------------------

\* the seven section patterns, in the dict's insertion order
sections ==
    << [key |-> "symptom_analysis",          heading |-> H_symptom_analysis],
       [key |-> "differential_diagnosis",    heading |-> H_differential_diagnosis],
       [key |-> "urgency_assessment",        heading |-> H_urgency_assessment],
       [key |-> "immediate_recommendations", heading |-> H_immediate_recommendations],
       [key |-> "red_flags",                 heading |-> H_red_flags],
       [key |-> "self_care",                 heading |-> H_self_care],
       [key |-> "follow_up",                 heading |-> H_follow_up] >>

\* variant: the heading is matched as spelt, without re.IGNORECASE
SectionSearch_case_sensitive(heading, text) ==
    LET starts == {i \in 1..Len(text) : MatchAt(text, heading, i)}
    IN  IF starts = {} THEN [found |-> FALSE, group |-> << >>]
        ELSE LET b == SkipSpace(text, MinOf(starts) + Len(heading))
                 e == MinOf({q \in b..(Len(text) + 1) :
                                MatchAt(text, S_hashes, q) \/ AtDollar(text, q)})
             IN  [found |-> TRUE, group |-> SubSeq(text, b, e - 1)]

\* variant: the lookahead is (?=###) alone, so that a section must be
\* followed by another heading
SectionSearch_needs_next_heading(heading, text) ==
    LET ends(i) == {q \in SkipSpace(text, i + Len(heading))..Len(text) :
                       MatchAt(text, S_hashes, q)}
        starts == {i \in 1..Len(text) :
                       MatchAtIgnoreCase(text, heading, i) /\ ends(i) # {}}
    IN  IF starts = {} THEN [found |-> FALSE, group |-> << >>]
        ELSE LET b == SkipSpace(text, MinOf(starts) + Len(heading))
                 e == MinOf(ends(MinOf(starts)))
             IN  [found |-> TRUE, group |-> SubSeq(text, b, e - 1)]

\* re.search(heading + r'\s*(.*?)(?=###|$)', text, re.IGNORECASE | re.DOTALL):
\* the leftmost occurrence of the heading (ignoring case) always matches,
\* because after the greedy \s* the lazy group can run to the end of the
\* text; group(1) starts after the whitespace and stops before the first
\* "###" or at $.
SectionSearch(heading, text) ==
    LET starts == {i \in 1..Len(text) : MatchAtIgnoreCase(text, heading, i)}
    IN  IF starts = {} THEN [found |-> FALSE, group |-> << >>]
        ELSE LET b == SkipSpace(text, MinOf(starts) + Len(heading))
                 e == MinOf({q \in b..(Len(text) + 1) :
                                MatchAt(text, S_hashes, q) \/ AtDollar(text, q)})
             IN  [found |-> TRUE, group |-> SubSeq(text, b, e - 1)]

\* the lookahead \d+\. succeeds at index r
NumDotAt(c, r) ==
    /\ r <= Len(c)
    /\ IsDigit(c[r])
    /\ SkipDigits(c, r) <= Len(c)
    /\ c[SkipDigits(c, r)] = "."

\* where the lazy rationale group started at r0 stops: the first index at
\* which the lookahead (?=\d+\.|$) succeeds
RationaleEnd(c, r0) ==
    MinOf({r \in r0..(Len(c) + 1) : NumDotAt(c, r) \/ AtDollar(c, r)})

\* one attempt of r'\d+\.\s*\*\*(.*?)\*\*\s*-\s*(.*?)(?=\d+\.|$)' (re.DOTALL)
\* anchored at index i of c.  The greedy \d+ and \s* can only succeed at
\* their longest; the lazy condition group stops before the first "**" that
\* is followed by optional whitespace and "-".
DiagMatchAt(c, i) ==
    LET fail == [ok |-> FALSE, cond |-> << >>, rat |-> << >>, end |-> i]
    IN  IF ~(i <= Len(c) /\ IsDigit(c[i])) THEN fail
        ELSE LET j == SkipDigits(c, i)
             IN  IF ~(j <= Len(c) /\ c[j] = ".") THEN fail
                 ELSE LET k == SkipSpace(c, j + 1)
                      IN  IF ~MatchAt(c, S_stars, k) THEN fail
                          ELSE LET closes == {q \in (k + 2)..Len(c) :
                                                /\ MatchAt(c, S_stars, q)
                                                /\ SkipSpace(c, q + 2) <= Len(c)
                                                /\ c[SkipSpace(c, q + 2)] = "-"}
                               IN  IF closes = {} THEN fail
                                   ELSE LET q  == MinOf(closes)
                                            r0 == SkipSpace(c, SkipSpace(c, q + 2) + 1)
                                            e  == RationaleEnd(c, r0)
                                        IN  [ok   |-> TRUE,
                                             cond |-> SubSeq(c, k + 2, q - 1),
                                             rat  |-> SubSeq(c, r0, e - 1),
                                             end  |-> e]

\* re.findall of the numbered-list pattern from index i on: matches are
\* taken left to right and do not overlap
RECURSIVE FindAllDiagnoses(_, _)
FindAllDiagnoses(c, i) ==
    IF i > Len(c) THEN << >>
    ELSE LET m == DiagMatchAt(c, i)
         IN  IF m.ok
             THEN << << m.cond, m.rat >> >> \o FindAllDiagnoses(c, m.end)
             ELSE FindAllDiagnoses(c, i + 1)

\* variant: the fallback lines are not cut
FirstFive_uncut(lines) == lines

\* lines[:5]
FirstFive(lines) == SubSeq(lines, 1, IF Len(lines) < 5 THEN Len(lines) ELSE 5)

\* the fallback tier: non-blank lines holding "**" or starting with a digit
FallbackLines(content) ==
    LET keep(line) == /\ Strip(line) # << >>
                      /\ (Contains(line, S_stars) \/ IsDigit(line[1]))
        kept == SelectSeq(Split(content), keep)
    IN  [n \in 1..Len(kept) |-> Strip(kept[n])]

\* the value of analysis['differential_diagnosis'] for a matched section
ParseDiagnoses(content) ==
    LET diagnoses == FindAllDiagnoses(content, 1)
        numbered  == [n \in 1..Len(diagnoses) |->
                        [condition |-> Strip(diagnoses[n][1]),
                         rationale |-> Strip(diagnoses[n][2])]]
        lines     == FirstFive(FallbackLines(content))
    IN  IF numbered # << >> THEN numbered
        ELSE [n \in 1..Len(lines) |-> [condition |-> lines[n], rationale |-> << >>]]

\* variant: the initial record is one object shared by all calls, so that
\* a section missing from the text keeps what an earlier call stored
SectionContent_stale(heading, text) ==
    LET match == SectionSearch(heading, text)
        key   == sections[CHOOSE k \in 1..Len(sections) :
                              sections[k].heading = heading].key
        stale == {frames[c].result[key] :
                     c \in {d \in DOMAIN frames : key \in DOMAIN frames[d].result}}
    IN  IF match.found THEN Strip(match.group)
        ELSE IF stale \ {<< >>} # {} THEN CHOOSE v \in stale \ {<< >>} : TRUE
        ELSE << >>

\* the text stored for a section: match.group(1).strip(), or the initial ''
SectionContent(heading, text) ==
    LET match == SectionSearch(heading, text)
    IN  IF match.found THEN Strip(match.group) ELSE << >>

\* variant: the 'urgent' test lacks the 'semi' exclusion
UrgencyLevel_no_semi_exclusion(urgency_assessment) ==
    LET urgency_text == Lower(urgency_assessment)
    IN  IF Contains(urgency_text, S_emergency) THEN S_emergency
        ELSE IF Contains(urgency_text, S_urgent) THEN S_urgent
        ELSE IF Contains(urgency_text, S_semi_urgent) THEN S_semi_urgent
        ELSE S_routine

\* variant: the 'urgent' test comes before the 'emergency' test
UrgencyLevel_urgent_first(urgency_assessment) ==
    LET urgency_text == Lower(urgency_assessment)
    IN  IF Contains(urgency_text, S_urgent) /\ ~Contains(urgency_text, S_semi)
        THEN S_urgent
        ELSE IF Contains(urgency_text, S_emergency) THEN S_emergency
        ELSE IF Contains(urgency_text, S_semi_urgent) THEN S_semi_urgent
        ELSE S_routine

\* the if/elif chain on the lower-cased urgency assessment
UrgencyLevel(urgency_assessment) ==
    LET urgency_text == Lower(urgency_assessment)
    IN  IF Contains(urgency_text, S_emergency) THEN S_emergency
        ELSE IF Contains(urgency_text, S_urgent) /\ ~Contains(urgency_text, S_semi)
             THEN S_urgent
        ELSE IF Contains(urgency_text, S_semi_urgent) THEN S_semi_urgent
        ELSE S_routine

\* variant: the except branch marks its record as not AI-generated
ParseFailure_not_ai_generated(llm_response) ==
    [error             |-> <<"F","a","i","l","e","d"," ","t","o"," ","p","a",
              "r","s","e"," ","A","I"," ","m","e","d","i","c","a","l"," ","a",
              "n","a","l","y","s","i","s">>,
     full_llm_response |-> llm_response,
     urgency_level     |-> S_urgent,
     ai_generated      |-> FALSE]

\* the record of the except branch
ParseFailure(llm_response) ==
    [error             |-> <<"F","a","i","l","e","d"," ","t","o"," ","p","a",
              "r","s","e"," ","A","I"," ","m","e","d","i","c","a","l"," ","a",
              "n","a","l","y","s","i","s">>,
     full_llm_response |-> llm_response,
     urgency_level     |-> S_urgent,
     ai_generated      |-> TRUE]

parse_llm_analysis(llm_response) ==
    IF llm_response.type # "str"
    THEN \* re.search raises TypeError on a value that is not a str
         ParseFailure(llm_response)
    ELSE LET text == llm_response.val
             dd   == SectionSearch(H_differential_diagnosis, text)
             ua   == SectionContent(H_urgency_assessment, text)
         IN  [symptom_analysis          |-> SectionContent(H_symptom_analysis, text),
              differential_diagnosis    |-> IF dd.found
                                            THEN ParseDiagnoses(Strip(dd.group))
                                            ELSE << >>,
              urgency_assessment        |-> ua,
              urgency_level             |-> UrgencyLevel(ua),
              immediate_recommendations |-> SectionContent(H_immediate_recommendations, text),
              red_flags                 |-> SectionContent(H_red_flags, text),
              self_care                 |-> SectionContent(H_self_care, text),
              follow_up                 |-> SectionContent(H_follow_up, text),
              full_llm_response         |-> llm_response,
              ai_generated              |-> TRUE]

\* ------------------------------------------------------------------------
\* The inference backend, as the two requests calls see it
\* ------------------------------------------------------------------------

\* outcome of requests.get(ollama_url + "/api/tags", timeout=5)
TagsRaised == [raised |-> TRUE, status_code |-> 0, models |-> << >>]

TagsReply(code, names) == [raised |-> FALSE, status_code |-> code, models |-> names]

\* outcome of requests.post(ollama_url + "/api/generate", timeout=600):
\* raised is "Timeout" (requests.exceptions.Timeout), "Other" (any other
\* exception, with its message) or "no"; json is "object" with or without a
\* 'response' key, or "invalid" when response.json() raises
GenTimeout ==
    [raised |-> "Timeout", message |-> << >>, status_code |-> 0,
     json |-> "none", has_response |-> FALSE, response |-> None]

GenRaised(msg) ==
    [raised |-> "Other", message |-> msg, status_code |-> 0,
     json |-> "none", has_response |-> FALSE, response |-> None]

GenStatus(code) ==
    [raised |-> "no", message |-> << >>, status_code |-> code,
     json |-> "none", has_response |-> FALSE, response |-> None]

GenBody(value) ==
    [raised |-> "no", message |-> << >>, status_code |-> 200,
     json |-> "object", has_response |-> TRUE, response |-> value]

GenNoResponseKey ==
    [raised |-> "no", message |-> << >>, status_code |-> 200,
     json |-> "object", has_response |-> FALSE, response |-> None]

GenInvalidJson(msg) ==
    [raised |-> "no", message |-> msg, status_code |-> 200,
     json |-> "invalid", has_response |-> FALSE, response |-> None]

DigitChars == <<"0","1","2","3","4","5","6","7","8","9">>

\* str(n) for a natural number, as the f-string formats the status code
RECURSIVE IntToStr(_)
IntToStr(n) ==
    IF n < 10 THEN << DigitChars[n + 1] >>
    ELSE IntToStr(n \div 10) \o << DigitChars[(n % 10) + 1] >>

\* ------------------------------------------------------------------------
\* MedicalAnalyzer.check_model_status
\* ------------------------------------------------------------------------

check_model_status(reply) ==
    IF reply.raised
    THEN [status |-> ST_connection_error, model_available |-> FALSE]
    ELSE IF reply.status_code = 200
    THEN LET models == reply.models
             model_available == \E n \in 1..Len(models) : Contains(models[n], medical_analyzer.model_name)
             gpt(name) == Contains(name, GptOss)
         IN  [status           |-> IF model_available THEN ST_ready ELSE ST_model_not_found,
              model_available  |-> model_available,
              available_models |-> SelectSeq(models, gpt)]
    ELSE [status |-> ST_ollama_not_running, model_available |-> FALSE]

\* ------------------------------------------------------------------------
\* MedicalAnalyzer.query_llm_for_analysis
\* ------------------------------------------------------------------------

query_llm_for_analysis(reply) ==
    IF reply.raised = "Timeout" THEN Str(MsgTimeout)
    ELSE IF reply.raised = "Other" THEN Str(MsgExcPrefix \o reply.message)
    ELSE IF reply.status_code = 200
    THEN IF reply.json = "invalid" THEN Str(MsgExcPrefix \o reply.message)
         ELSE IF reply.has_response THEN reply.response
         ELSE Str(MsgNoResponse)
    ELSE Str(MsgHttpPrefix \o IntToStr(reply.status_code))

\* ------------------------------------------------------------------------
\* MedicalAnalyzer.create_emergency_override
\* ------------------------------------------------------------------------

\* the canned record, field by field as the source spells it (the emoji
\* that opens immediate_recommendations is left out)
create_emergency_override(symptoms) ==
    [emergency_override        |-> TRUE,
     urgency_level             |-> S_emergency,
     symptom_analysis          |-> <<"M","E","D","I","C","A","L"," ","E","M",
              "E","R","G","E","N","C","Y"," ","D","E","T","E","C","T","E","D",
              ":"," ">> \o symptoms,
     differential_diagnosis    |-> << [condition |-> <<"L","i","f","e","-",
              "t","h","r","e","a","t","e","n","i","n","g"," ","e","m","e","r",
              "g","e","n","c","y">>, rationale |-> <<"I","m","m","e","d","i",
              "a","t","e"," ","i","n","t","e","r","v","e","n","t","i","o","n",
              " ","r","e","q","u","i","r","e","d">>] >>,
     immediate_recommendations |-> <<" ","C","A","L","L"," ","E","M","E","R",
              "G","E","N","C","Y"," ","S","E","R","V","I","C","E","S"," ","I",
              "M","M","E","D","I","A","T","E","L","Y"," ","(","9","1","1","/",
              "1","1","2","/","9","9","9",")","."," ","D","o"," ","n","o","t",
              " ","d","e","l","a","y",".">>,
     red_flags                 |-> <<"Y","o","u"," ","a","r","e"," ","e","x",
              "p","e","r","i","e","n","c","i","n","g"," ","a"," ","m","e","d",
              "i","c","a","l"," ","e","m","e","r","g","e","n","c","y",".">>,
     self_care                 |-> <<"D","o"," ","n","o","t"," ","a","t","t",
              "e","m","p","t"," ","s","e","l","f","-","t","r","e","a","t","m",
              "e","n","t","."," ","C","a","l","l"," ","e","m","e","r","g","e",
              "n","c","y"," ","s","e","r","v","i","c","e","s"," ","n","o","w",
              ".">>,
     follow_up                 |-> <<"E","m","e","r","g","e","n","c","y"," ",
              "m","e","d","i","c","a","l"," ","c","a","r","e"," ","r","e","q",
              "u","i","r","e","d"," ","i","m","m","e","d","i","a","t","e","l",
              "y",".">>,
     urgency_assessment        |-> <<"E","M","E","R","G","E","N","C","Y"," ",
              "-"," ","L","i","f","e","-","t","h","r","e","a","t","e","n","i",
              "n","g"," ","c","o","n","d","i","t","i","o","n"," ","r","e","q",
              "u","i","r","i","n","g"," ","i","m","m","e","d","i","a","t","e",
              " ","m","e","d","i","c","a","l"," ","i","n","t","e","r","v","e",
              "n","t","i","o","n">>,
     ai_generated              |-> FALSE]

\* ------------------------------------------------------------------------
\* MedicalAnalyzer.analyze_symptoms: the records it returns
\* ------------------------------------------------------------------------

\* {'error': 'Please describe your symptoms to receive medical guidance.'}
ValidationRecord == [error |-> <<"P","l","e","a","s","e"," ","d","e","s","c",
              "r","i","b","e"," ","y","o","u","r"," ","s","y","m","p","t","o",
              "m","s"," ","t","o"," ","r","e","c","e","i","v","e"," ","m","e",
              "d","i","c","a","l"," ","g","u","i","d","a","n","c","e",".">>]

\* error is f"Medical AI service unavailable ({status}). Please consult a
\* healthcare provider."
UnavailableRecord(model_status) ==
    [error                     |-> <<"M","e","d","i","c","a","l"," ","A","I",
              " ","s","e","r","v","i","c","e"," ","u","n","a","v","a","i","l",
              "a","b","l","e"," ","(">> \o model_status.status
                                      \o <<")","."," ","P","l","e","a","s",
              "e"," ","c","o","n","s","u","l","t"," ","a"," ","h","e","a","l",
              "t","h","c","a","r","e"," ","p","r","o","v","i","d","e","r",
              ".">>,
     available_models          |-> IF "available_models" \in DOMAIN model_status
                                   THEN model_status.available_models ELSE << >>,
     urgency_level             |-> S_urgent,
     immediate_recommendations |-> <<"S","i","n","c","e"," ","A","I"," ","a",
              "n","a","l","y","s","i","s"," ","i","s"," ","u","n","a","v","a",
              "i","l","a","b","l","e",","," ","p","l","e","a","s","e"," ","c",
              "o","n","s","u","l","t"," ","w","i","t","h"," ","a"," ","h","e",
              "a","l","t","h","c","a","r","e"," ","p","r","o","v","i","d","e",
              "r"," ","a","b","o","u","t"," ","y","o","u","r"," ","s","y","m",
              "p","t","o","m","s",".">>]

\* error is 'Unable to complete medical analysis'
GenerationErrorRecord(llm_response) ==
    [error                     |-> <<"U","n","a","b","l","e"," ","t","o"," ",
              "c","o","m","p","l","e","t","e"," ","m","e","d","i","c","a","l",
              " ","a","n","a","l","y","s","i","s">>,
     technical_details         |-> llm_response.val,
     urgency_level             |-> S_urgent,
     immediate_recommendations |-> <<"P","l","e","a","s","e"," ","c","o","n",
              "s","u","l","t"," ","w","i","t","h"," ","a"," ","h","e","a","l",
              "t","h","c","a","r","e"," ","p","r","o","v","i","d","e","r"," ",
              "a","b","o","u","t"," ","y","o","u","r"," ","s","y","m","p","t",
              "o","m","s",".">>]

\* error is 'Medical analysis system error'
SystemErrorRecord(message) ==
    [error                     |-> <<"M","e","d","i","c","a","l"," ","a","n",
              "a","l","y","s","i","s"," ","s","y","s","t","e","m"," ","e","r",
              "r","o","r">>,
     urgency_level             |-> S_urgent,
     immediate_recommendations |-> <<"D","u","e"," ","t","o"," ","s","y","s",
              "t","e","m"," ","e","r","r","o","r",","," ","p","l","e","a","s",
              "e"," ","c","o","n","s","u","l","t"," ","w","i","t","h"," ","a",
              " ","h","e","a","l","t","h","c","a","r","e"," ","p","r","o","v",
              "i","d","e","r"," ","a","b","o","u","t"," ","y","o","u","r"," ",
              "s","y","m","p","t","o","m","s",".">>,
     technical_error           |-> message]

\* analysis.update({...}): the metadata keys overwrite, the others stay
AddMetadata(analysis, timestamp, lang, symptoms, age, gender) ==
    [timestamp       |-> timestamp,
     language        |-> lang,
     model_used      |-> medical_analyzer.model_name,
     disclaimer      |-> medical_analyzer.disclaimer,
     privacy_note    |-> privacy_note,
     input_symptoms  |-> symptoms,
     patient_age     |-> age,
     patient_gender  |-> gender] @@ analysis

\* if language not in self.supported_languages: language = 'en'
EffectiveLanguage(lang) ==
    IF lang \in medical_analyzer.supported_languages THEN lang ELSE "en"

\* variant: only the word 'Error' marks a failed generation call
LooksLikeError_only_Error(text) == Contains(text, S_Error)

\* if 'Error' in llm_response or 'timed out' in llm_response
LooksLikeError(text) == Contains(text, S_Error) \/ Contains(text, S_timed_out)

\* the steps analyze_symptoms runs from the generation call on: the call,
\* then parse_llm_analysis and the metadata update unless the value raises
\* in the 'Error' test or passes it
StepsAfterGeneration(llm_response) ==
    IF llm_response.type = "NoneType" THEN << "generate" >>
    ELSE IF llm_response.type = "str" /\ LooksLikeError(llm_response.val)
    THEN << "generate" >>
    ELSE << "generate", "parse", "merge" >>

\* variant: analyze_symptoms without its outer try/except, so that the
\* TypeError of the 'Error' test on None reaches the caller
AfterGeneration_no_outer_except(llm_response, timestamp, lang, symptoms, age, gender) ==
    IF llm_response.type = "NoneType"
    THEN [exception |-> <<"T","y","p","e","E","r","r","o","r">>]
    ELSE IF llm_response.type = "str" /\ LooksLikeError(llm_response.val)
    THEN GenerationErrorRecord(llm_response)
    ELSE AddMetadata(parse_llm_analysis(llm_response), timestamp,
                     EffectiveLanguage(lang), symptoms, age, gender)

\* what analyze_symptoms does with the value query_llm_for_analysis returned
AfterGeneration(llm_response, timestamp, lang, symptoms, age, gender) ==
    IF llm_response.type = "NoneType"
    THEN \* 'Error' in None raises TypeError, caught by the outer except
         SystemErrorRecord(<<"a","r","g","u","m","e","n","t"," ","o","f"," ",
              "t","y","p","e"," ","'","N","o","n","e","T","y","p","e","'"," ",
              "i","s"," ","n","o","t"," ","i","t","e","r","a","b","l","e">>)
    ELSE IF llm_response.type = "str" /\ LooksLikeError(llm_response.val)
    THEN GenerationErrorRecord(llm_response)
    ELSE AddMetadata(parse_llm_analysis(llm_response), timestamp,
                     EffectiveLanguage(lang), symptoms, age, gender)

\* ------------------------------------------------------------------------
\* Inputs of analyze_symptoms
\* ------------------------------------------------------------------------

EmergencyPhrases == {absolute_emergencies[k] : k \in 1..Len(absolute_emergencies)}

\* a phrase of the list in lower, upper and mixed case, inside other text
\* before it: nothing, 'he is ' or 'can'; after it: nothing or
\* ' heavily, just tired'
EmergencySymptoms ==
    {pre \o body \o suf :
        pre  \in {<< >>, <<"h","e"," ","i","s"," ">>, <<"c","a","n">>},
        body \in UNION {{p, Upper(p), MixedCase(p)} : p \in EmergencyPhrases},
        suf  \in {<< >>, <<" ","h","e","a","v","i","l","y",","," ","j","u",
              "s","t"," ","t","i","r","e","d">>}}

\* texts without a phrase of the list: 'mild headache since monday',
\* 'he is not  breathing well' (two spaces), 'felt unconcious for a moment'
OrdinarySymptoms ==
    {
      <<"m","i","l","d"," ","h","e","a","d","a","c","h","e"," ","s","i","n",
        "c","e"," ","m","o","n","d","a","y">>,
      <<"h","e"," ","i","s"," ","n","o","t"," "," ","b","r","e","a","t","h",
        "i","n","g"," ","w","e","l","l">>,
      <<"f","e","l","t"," ","u","n","c","o","n","c","i","o","u","s"," ","f",
        "o","r"," ","a"," ","m","o","m","e","n","t">>
    }

BlankSymptoms == {<< >>, <<" "," "," ">>, <<"\n","\t"," ">>}

SymptomTexts == EmergencySymptoms \cup OrdinarySymptoms \cup BlankSymptoms

Ages == {<< >>, <<"4","2">>}

Genders == {<< >>, <<"f","e","m","a","l","e">>}

\* "xx" is a code outside supported_languages
Languages == {"en", "sw", "xx"}

\* values of datetime.now().strftime(...)
Timestamps == {<<"2","0","2","5","-","0","1","-","0","1"," ","0","9",":","0",
              "0",":","0","0">>, <<"2","0","2","5","-","0","1","-","0","1",
              " ","2","1",":","3","0",":","0","5">>}

\* ------------------------------------------------------------------------
\* Behaviour of the backend
\* ------------------------------------------------------------------------

BackendStates == {"ready", "model_missing", "down", "unreachable", "slow"}

ModelListsWith == {<< Name_20b >>, << Name_llama, Name_20b_q4 >>}

ModelListsWithout == {<< >>, << Name_120b, Name_llama >>}

TagsReplies(b) ==
    CASE b = "ready"         -> {TagsReply(200, ms) : ms \in ModelListsWith}
      [] b = "model_missing" -> {TagsReply(200, ms) : ms \in ModelListsWithout}
      [] b = "down"          -> {TagsReply(500, << >>), TagsReply(503, << >>)}
      [] b = "unreachable"   -> {TagsRaised}
      [] b = "slow"          -> {TagsRaised, TagsReply(200, << Name_20b >>)}

ResponseTexts == {T_full, T_emergency, T_urgent, T_error_word, T_prose, << >>}

GenBodies ==
    {GenBody(Str(t)) : t \in ResponseTexts}
        \cup {GenBody(None), GenBody(EmptyList), GenNoResponseKey, GenInvalidJson(<<
              "E","x","p","e","c","t","i","n","g"," ","v","a","l","u","e",":",
              " ","l","i","n","e"," ","1"," ","c","o","l","u","m","n"," ","1",
              " ","(","c","h","a","r"," ","0",")">>)}

GenerateReplies(b) ==
    CASE b = "ready"         -> GenBodies
      [] b = "model_missing" -> {GenStatus(404)}
      [] b = "down"          -> {GenStatus(500), GenStatus(503)}
      [] b = "unreachable"   -> {GenRaised(<<"C","o","n","n","e","c","t","i",
              "o","n"," ","r","e","f","u","s","e","d">>)}
      [] b = "slow"          -> {GenTimeout, GenBody(Str(T_full))}

\* ------------------------------------------------------------------------
\* State of one call of analyze_symptoms, of one parse, of one request
\* ------------------------------------------------------------------------

VARIABLES
    symptoms, age, gender, language,  \* arguments of analyze_symptoms
    backend,                          \* current behaviour of the backend
    pc,                               \* position in analyze_symptoms
    calls,                            \* backend calls made so far, in order
    steps,                            \* steps of analyze_symptoms run so far
    tags_reply, gen_reply,            \* what the two requests calls got
    model_status,                     \* value of check_model_status()
    llm_response,                     \* value of query_llm_for_analysis()
    result,                           \* the record analyze_symptoms returned
    doc, raw, parsed,                 \* parse_llm_analysis on its own
    request, page                     \* the /analyze request and its response

vars == << medical_analyzer, symptoms, age, gender, language, backend, pc,
           calls, steps, tags_reply, gen_reply, model_status, llm_response,
           result, doc, raw, parsed, request, page, frames >>

NoResult == [pending |-> TRUE]

NoTagsReply == TagsReply(0, << >>)

NoGenReply == GenStatus(0)

NoStatus == [status |-> << >>, model_available |-> FALSE]

NoDoc == [pre |-> << >>, secs |-> << >>, items |-> << >>]

NoForm == [symptoms |-> << >>, age |-> << >>, gender |-> << >>, language |-> "en"]

parseIdle == doc = NoDoc /\ raw = << >> /\ parsed = NoResult

Init ==
    /\ symptoms \in SymptomTexts
    /\ age \in Ages
    /\ gender \in Genders
    /\ language \in Languages
    /\ backend \in BackendStates
    /\ pc = "validate"
    /\ calls = << >>
    /\ tags_reply = NoTagsReply
    /\ gen_reply = NoGenReply
    /\ model_status = NoStatus
    /\ llm_response = None
    /\ result = NoResult
    /\ parseIdle
    /\ medical_analyzer = MedicalAnalyzer
    /\ steps = << >>
    /\ request = NoForm
    /\ page = "none"
    /\ frames = << >>

\* analyze_symptoms up to the status probe: input validation, the language
\* default and the emergency pre-filter with its override record
Validate ==
    /\ pc = "validate"
    /\ IF Strip(symptoms) = << >>
       THEN /\ result' = ValidationRecord
            /\ pc' = "done"
            /\ steps' = << "validate" >>
       ELSE IF check_absolute_emergency(symptoms)
       THEN /\ \E ts \in Timestamps :
                 result' = AddMetadata(create_emergency_override(symptoms), ts,
                                       EffectiveLanguage(language), symptoms, age, gender)
            /\ pc' = "done"
            /\ steps' = << "validate", "prefilter", "merge" >>
       ELSE /\ result' = result
            /\ pc' = "probe"
            /\ steps' = << "validate", "prefilter" >>
    /\ UNCHANGED << symptoms, age, gender, language, backend, calls, tags_reply,
                    gen_reply, model_status, llm_response, doc, raw, parsed >>
    /\ UNCHANGED << medical_analyzer, request, page, frames >>

\* variant: only a failed connection counts as unavailable
Unavailable_only_connection_error(st) == st.status = ST_connection_error

\* variant: the result of the probe is ignored
Unavailable_never(st) == FALSE

\* if model_status['status'] != 'ready'
Unavailable(st) == st.status # ST_ready

\* the status probe and the branch on its result
Probe ==
    /\ pc = "probe"
    /\ \E reply \in TagsReplies(backend) :
          LET st == check_model_status(reply)
          IN  /\ tags_reply' = reply
              /\ model_status' = st
              /\ IF Unavailable(st)
                 THEN result' = UnavailableRecord(st) /\ pc' = "done"
                 ELSE result' = result /\ pc' = "generate"
    /\ calls' = Append(calls, "probe")
    /\ steps' = Append(steps, "probe")
    /\ UNCHANGED << symptoms, age, gender, language, backend, gen_reply,
                    llm_response, doc, raw, parsed >>
    /\ UNCHANGED << medical_analyzer, request, page, frames >>

\* the generation call and everything after it, up to the return
Generate ==
    /\ pc = "generate"
    /\ \E reply \in GenerateReplies(backend), ts \in Timestamps :
          LET r == query_llm_for_analysis(reply)
          IN  /\ gen_reply' = reply
              /\ llm_response' = r
              /\ result' = AfterGeneration(r, ts, language, symptoms, age, gender)
              /\ steps' = steps \o StepsAfterGeneration(r)
    /\ calls' = Append(calls, "generate")
    /\ pc' = "done"
    /\ UNCHANGED << symptoms, age, gender, language, backend, tags_reply,
                    model_status, doc, raw, parsed >>
    /\ UNCHANGED << medical_analyzer, request, page, frames >>

\* the backend changes behaviour while a request is in progress
BackendChange ==
    /\ pc # "done"
    /\ backend' \in BackendStates \ {backend}
    /\ UNCHANGED << symptoms, age, gender, language, pc, calls, tags_reply,
                    gen_reply, model_status, llm_response, result, doc, raw, parsed >>
    /\ UNCHANGED << medical_analyzer, steps, request, page, frames >>

Next == Validate \/ Probe \/ Generate \/ BackendChange

Spec == Init /\ [][Next]_vars

\* ------------------------------------------------------------------------
\* The /analyze request handler of app.py
\* ------------------------------------------------------------------------

\* LanguageSupport.language_patterns, in the dict's order: the terms written
\* in ASCII letters (no term of ar, hi, zh, ru is, and no text of the model
\* holds another letter)
language_patterns ==
    <<
       [code |-> "en", terms |-> {
            <<"p","a","i","n">>,
            <<"h","e","a","d","a","c","h","e">>,
            <<"f","e","v","e","r">>,
            <<"n","a","u","s","e","a">>,
            <<"d","i","z","z","y">>,
            <<"t","i","r","e","d">>,
            <<"h","u","r","t">>,
            <<"a","c","h","e">>}],
       [code |-> "es", terms |-> {
            <<"d","o","l","o","r">>,
            <<"c","a","b","e","z","a">>,
            <<"f","i","e","b","r","e">>,
            <<"m","a","r","e","a","d","o">>,
            <<"c","a","n","s","a","d","o">>,
            <<"d","u","e","l","e">>}],
       [code |-> "fr", terms |-> {
            <<"d","o","u","l","e","u","r">>,
            <<"m","a","l">>}],
       [code |-> "pt", terms |-> {
            <<"d","o","r">>,
            <<"f","e","b","r","e">>,
            <<"t","o","n","t","o">>,
            <<"c","a","n","s","a","d","o">>,
            <<"d","o","e","r">>}],
       [code |-> "ar", terms |-> {}],
       [code |-> "hi", terms |-> {}],
       [code |-> "zh", terms |-> {}],
       [code |-> "ru", terms |-> {}],
       [code |-> "sw", terms |-> {
            <<"m","a","u","m","i","v","u">>,
            <<"k","i","c","h","w","a">>,
            <<"h","o","m","a">>,
            <<"k","i","c","h","e","f","u","c","h","e","f","u">>,
            <<"k","i","z","u","n","g","u","z","u","n","g","u">>,
            <<"u","c","h","o","v","u">>}]
    >>

\* LanguageSupport._contains_chinese on an ASCII text: in the character
\* class, \u20000 is \u2000 followed by '0', so the class holds the range
\* from '0' to \u2a6d, with it every ASCII digit and letter and the signs
\* between them (the backslash and the backquote are left out: no text of
\* the model holds them)
contains_chinese(text) ==
    \E i \in 1..Len(text) :
        \/ IsDigit(text[i])
        \/ LowerChar(text[i]) # text[i]
        \/ UpperChar(text[i]) # text[i]
        \/ text[i] \in {":", ";", "<", "=", ">", "?", "@", "[", "]", "^",
                        "_", "{", "|", "}", "~"}

\* LanguageSupport.detect_language on an ASCII text: the first language
\* with the highest count of its terms in the lower-cased text; when no
\* term occurs, 'zh' if contains_chinese (the test on Arabic letters
\* before it fails), else 'en'
detect_language(text) ==
    LET text_lower == Lower(text)
        score(k)   == Cardinality({t \in language_patterns[k].terms :
                                      Contains(text_lower, t)})
        detected   == CHOOSE k \in 1..Len(language_patterns) :
                          /\ \A j \in 1..Len(language_patterns) : score(j) <= score(k)
                          /\ \A j \in 1..(k - 1) : score(j) < score(k)
    IN  IF score(detected) > 0 THEN language_patterns[detected].code
        ELSE IF contains_chinese(text) THEN "zh"
        ELSE "en"

\* a POST to /analyze; the texts are '  he is not breathing  ', 'no pulse',
\* 'mild headache since monday', 'nina homa na maumivu ya kichwa', '   ',
\* 'UNRESPONSIVE after a fall'
InitHandler ==
    /\ request \in
          [symptoms : {
         <<" "," ","h","e"," ","i","s"," ","n","o","t"," ","b","r","e","a",
           "t","h","i","n","g"," "," ">>,
         <<"n","o"," ","p","u","l","s","e">>,
         <<"m","i","l","d"," ","h","e","a","d","a","c","h","e"," ","s","i",
           "n","c","e"," ","m","o","n","d","a","y">>,
         <<"n","i","n","a"," ","h","o","m","a"," ","n","a"," ","m","a","u",
           "m","i","v","u"," ","y","a"," ","k","i","c","h","w","a">>,
         <<" "," "," ">>,
         <<"U","N","R","E","S","P","O","N","S","I","V","E"," ","a","f","t",
           "e","r"," ","a"," ","f","a","l","l">>},
           age      : Ages,
           gender   : {<< >>},
           language : {"en", "auto", "xx"}]
    /\ backend \in BackendStates
    /\ pc = "request"
    /\ page = "none"
    /\ symptoms = << >>
    /\ age = << >>
    /\ gender = << >>
    /\ language = "en"
    /\ calls = << >>
    /\ steps = << >>
    /\ tags_reply = NoTagsReply
    /\ gen_reply = NoGenReply
    /\ model_status = NoStatus
    /\ llm_response = None
    /\ result = NoResult
    /\ parseIdle
    /\ medical_analyzer = MedicalAnalyzer
    /\ frames = << >>

\* the handler up to the call of analyze_symptoms: the form values, the
\* two checks on the trimmed symptoms (each flashes a message and
\* redirects to the index page) and the language detection
Receive ==
    /\ pc = "request"
    /\ LET text == Strip(request.symptoms)
       IN  IF text = << >>
           THEN /\ page' = "index: Please describe your symptoms"
                /\ pc' = "responded"
                /\ UNCHANGED << symptoms, age, gender, language >>
           ELSE IF Len(text) < 10
           THEN /\ page' = "index: Please provide more detailed symptom description"
                /\ pc' = "responded"
                /\ UNCHANGED << symptoms, age, gender, language >>
           ELSE /\ symptoms' = text
                /\ age' = request.age
                /\ gender' = request.gender
                /\ language' = IF request.language = "auto"
                               THEN detect_language(text)
                               ELSE request.language
                /\ pc' = "validate"
                /\ page' = page
    /\ UNCHANGED << medical_analyzer, backend, calls, steps, tags_reply, gen_reply,
                    model_status, llm_response, result, doc, raw, parsed,
                    request, frames >>

\* the handler after analyze_symptoms returned: the emergency page when
\* analysis_result.get('emergency_level', 'low') == 'high', else the
\* results page
Respond ==
    /\ pc = "done"
    /\ page = "none"
    /\ page' = IF /\ "emergency_level" \in DOMAIN result
                  /\ result.emergency_level = <<"h","i","g","h">>
               THEN "emergency.html"
               ELSE "results.html"
    /\ pc' = "responded"
    /\ UNCHANGED << medical_analyzer, symptoms, age, gender, language, backend,
                    calls, steps, tags_reply, gen_reply, model_status,
                    llm_response, result, doc, raw, parsed, request, frames >>

NextHandler == Receive \/ Validate \/ Probe \/ Generate \/ BackendChange \/ Respond

SpecHandler == InitHandler /\ [][NextHandler]_vars

\* ------------------------------------------------------------------------
\* Several calls in progress on the one analyzer of app.py
\* ------------------------------------------------------------------------

\* most calls in progress at a time
MaxCalls == 2

\* variant: the parameters and locals are kept on the shared instance, where
\* every call reads those of the first
Frame_shared(c) == frames[1]

\* the parameters and locals of call c
Frame(c) == frames[c]

\* each caller makes one call of analyze_symptoms('mild headache since
\* monday', '42', '', 'sw') or of analyze_symptoms('he is NOT BREATHING', '',
\* 'female', 'xx'), or two calls of parse_llm_analysis on one of two texts
InitShared ==
    /\ frames \in
          [1..MaxCalls ->
              [op : {"analyze"}, pc : {"validate"},
               symptoms : {<<"m","i","l","d"," ","h","e","a","d","a","c","h","e"," ",
                  "s","i","n","c","e"," ","m","o","n","d","a","y">>},
               age : {<<"4","2">>}, gender : {<< >>}, language : {"sw"}, text : {<< >>},
               tags_reply : {NoTagsReply}, gen_reply : {NoGenReply},
               first : {NoResult}, result : {NoResult}]
              \cup
              [op : {"analyze"}, pc : {"validate"},
               symptoms : {<<"h","e"," ","i","s"," ","N","O","T"," ","B","R","E","A",
                  "T","H","I","N","G">>},
               age : {<< >>}, gender : {<<"f","e","m","a","l","e">>},
               language : {"xx"}, text : {<< >>},
               tags_reply : {NoTagsReply}, gen_reply : {NoGenReply},
               first : {NoResult}, result : {NoResult}]
              \cup
              [op : {"parse"}, pc : {"parse"},
               symptoms : {<< >>}, age : {<< >>}, gender : {<< >>},
               language : {"en"}, text : {T_urgent, T_error_word},
               tags_reply : {NoTagsReply}, gen_reply : {NoGenReply},
               first : {NoResult}, result : {NoResult}]]
    /\ medical_analyzer = MedicalAnalyzer
    /\ backend \in BackendStates
    /\ pc = "calls"
    /\ symptoms = << >>
    /\ age = << >>
    /\ gender = << >>
    /\ language = "en"
    /\ calls = << >>
    /\ steps = << >>
    /\ tags_reply = NoTagsReply
    /\ gen_reply = NoGenReply
    /\ model_status = NoStatus
    /\ llm_response = None
    /\ result = NoResult
    /\ parseIdle
    /\ request = NoForm
    /\ page = "none"

\* call c of analyze_symptoms up to the status probe
CallValidate(c) ==
    /\ Frame(c).op = "analyze"
    /\ Frame(c).pc = "validate"
    /\ IF Strip(Frame(c).symptoms) = << >>
       THEN frames' = [frames EXCEPT ![c].result = ValidationRecord,
                                     ![c].pc = "done"]
       ELSE IF check_absolute_emergency(Frame(c).symptoms)
       THEN \E ts \in Timestamps :
               frames' = [frames EXCEPT
                   ![c].result = AddMetadata(create_emergency_override(Frame(c).symptoms),
                                             ts, EffectiveLanguage(Frame(c).language),
                                             Frame(c).symptoms, Frame(c).age,
                                             Frame(c).gender),
                   ![c].pc = "done"]
       ELSE frames' = [frames EXCEPT ![c].pc = "probe"]
    /\ UNCHANGED << medical_analyzer, symptoms, age, gender, language, backend, pc,
                    calls, steps, tags_reply, gen_reply, model_status,
                    llm_response, result, doc, raw, parsed, request, page >>

\* the status probe of call c and the branch on its result
CallProbe(c) ==
    /\ Frame(c).op = "analyze"
    /\ Frame(c).pc = "probe"
    /\ \E reply \in TagsReplies(backend) :
          LET st == check_model_status(reply)
          IN  frames' = [frames EXCEPT
                  ![c].tags_reply = reply,
                  ![c].result = IF Unavailable(st) THEN UnavailableRecord(st) ELSE @,
                  ![c].pc = IF Unavailable(st) THEN "done" ELSE "generate"]
    /\ UNCHANGED << medical_analyzer, symptoms, age, gender, language, backend, pc,
                    calls, steps, tags_reply, gen_reply, model_status,
                    llm_response, result, doc, raw, parsed, request, page >>

\* the generation call of call c and everything after it; of the bodies
\* a reachable backend sends, the text T_urgent and the null response
CallGenerate(c) ==
    /\ Frame(c).op = "analyze"
    /\ Frame(c).pc = "generate"
    /\ \E reply \in GenerateReplies(backend), ts \in Timestamps :
          /\ (reply.raised = "no" /\ reply.status_code = 200)
                => reply \in {GenBody(Str(T_urgent)), GenBody(None)}
          /\ frames' = [frames EXCEPT
                  ![c].gen_reply = reply,
                  ![c].result = AfterGeneration(query_llm_for_analysis(reply), ts,
                                                Frame(c).language, Frame(c).symptoms,
                                                Frame(c).age, Frame(c).gender),
                  ![c].pc = "done"]
    /\ UNCHANGED << medical_analyzer, symptoms, age, gender, language, backend, pc,
                    calls, steps, tags_reply, gen_reply, model_status,
                    llm_response, result, doc, raw, parsed, request, page >>

\* the first or the second call of parse_llm_analysis by caller c
CallParse(c) ==
    /\ Frame(c).op = "parse"
    /\ Frame(c).pc \in {"parse", "again"}
    /\ IF Frame(c).pc = "parse"
       THEN frames' = [frames EXCEPT
                ![c].first = parse_llm_analysis(Str(Frame(c).text)),
                ![c].pc = "again"]
       ELSE frames' = [frames EXCEPT
                ![c].result = parse_llm_analysis(Str(Frame(c).text)),
                ![c].pc = "done"]
    /\ UNCHANGED << medical_analyzer, symptoms, age, gender, language, backend, pc,
                    calls, steps, tags_reply, gen_reply, model_status,
                    llm_response, result, doc, raw, parsed, request, page >>

NextShared ==
    \E c \in 1..MaxCalls :
        CallValidate(c) \/ CallProbe(c) \/ CallGenerate(c) \/ CallParse(c)

SpecShared == InitShared /\ [][NextShared]_vars

\* ------------------------------------------------------------------------
\* parse_llm_analysis on its own: the response texts it is applied to
\* ------------------------------------------------------------------------

B_symptom_analysis ==
    <<"M","i","l","d"," ","v","i","r","a","l","\n","s","y","m","p","t","o",
      "m","s">>

B_urgency_assessment ==
    <<"R","O","U","T","I","N","E"," ","-"," ","m","i","l","d"," ","s","y",
      "m","p","t","o","m","s">>

B_immediate_recommendations ==
    <<"R","e","s","t">>

B_red_flags ==
    <<"H","i","g","h"," ","f","e","v","e","r">>

B_self_care ==
    <<"F","l","u","i","d","s">>

B_follow_up ==
    <<"S","e","e"," ","a"," ","d","o","c","t","o","r">>

B_blank ==
    <<" ","\n">>

Cond_Flu ==
    <<"F","l","u">>

Cond_Cold ==
    <<"C","o","l","d">>

Rat_plain ==
    <<"c","o","m","m","o","n"," ","v","i","r","a","l"," ","i","n","f","e",
      "c","t","i","o","n">>

Rat_mild ==
    <<"m","i","l","d"," ","v","i","r","a","l"," ","i","n","f","e","c","t",
      "i","o","n">>

Rat_digit ==
    <<"f","e","v","e","r"," ","3","8",".","5"," ","C">>

NL ==
    <<"\n">>

Preamble ==
    <<"#","#"," ","C","L","I","N","I","C","A","L"," ","A","S","S","E","S",
      "S","M","E","N","T","\n","\n">>

BareUrgencyHeading ==
    <<"U","R","G","E","N","C","Y"," ","A","S","S","E","S","S","M","E","N",
      "T">>

SemiUrgentCase ==
    <<"T","h","i","s"," ","i","s"," ","a"," ","s","e","m","i","-","u","r",
      "g","e","n","t"," ","c","a","s","e">>

SemiUrgentExample ==
    <<"U","R","G","E","N","C","Y"," ","A","S","S","E","S","S","M","E","N",
      "T","\n","T","h","i","s"," ","i","s"," ","a"," ","s","e","m","i","-",
      "u","r","g","e","n","t"," ","c","a","s","e">>

Tail_urgent_care ==
    <<"\n","S","e","e","k"," ","u","r","g","e","n","t"," ","c","a","r","e",
      " ","i","f"," ","i","t"," ","w","o","r","s","e","n","s">>

Cond_Common_cold ==
    <<" ","C","o","m","m","o","n"," ","c","o","l","d"," ">>

\* most items of a generated differential-diagnosis list
MaxItems == 6

\* most items of a list that mixes numbered items with other lines
MaxMixed == 3

Section(key, heading, body) == [key |-> key, heading |-> heading, body |-> body]

Item(form, cond, rat) == [form |-> form, cond |-> cond, rat |-> rat]

\* items of the form the prompt asks for: <n>. **<condition>** - <rationale>
NumberedKinds ==
    {Item("numbered", Cond_Flu, Rat_plain),
     Item("numbered", Cond_Common_cold, Rat_mild),
     Item("numbered", Cond_Cold, Rat_digit)}

\* lines a model writes instead: a bullet with emphasis, "<n>) ...", prose
LooseKinds ==
    {Item("bullet", Cond_Flu, << >>),
     Item("paren", Cond_Cold, << >>),
     Item("prose", Cond_Flu, << >>)}

RenderItem(it, n) ==
    CASE it.form = "numbered" -> IntToStr(n) \o <<"."," ","*","*">> \o it.cond \o <<
              "*","*"," ","-"," ">> \o it.rat \o NL
      [] it.form = "bullet"   -> <<"-"," ","*","*">> \o it.cond \o S_stars \o NL
      [] it.form = "paren"    -> IntToStr(n) \o <<")"," ">> \o it.cond \o NL
      [] it.form = "prose"    -> it.cond \o NL
      [] it.form = "indented bullet" ->
             <<" "," ","-"," ","*","*">> \o it.cond \o S_stars \o <<" "," ">> \o NL
      [] it.form = "indented paren"  ->
             <<" "," ">> \o IntToStr(n) \o <<")"," ">> \o it.cond \o NL
      [] it.form = "blank"    -> <<" "," ">> \o NL

RenderItems(items) == Concat([n \in 1..Len(items) |-> RenderItem(items[n], n)])

RenderSection(sec) == sec.heading \o NL \o sec.body \o NL

\* the response text of a document: preamble, then each section in turn
Render(d) == d.pre \o Concat([n \in 1..Len(d.secs) |-> RenderSection(d.secs[n])])

ItemLists(kinds, n) == UNION {[1..k -> kinds] : k \in 0..n}

\* a differential-diagnosis section alone, or followed by another section
ListDocs ==
    {[pre   |-> << >>,
      secs  |-> << Section("differential_diagnosis", H_differential_diagnosis,
                           RenderItems(its)) >> \o after,
      items |-> its] :
        its   \in ItemLists(NumberedKinds, MaxItems) \cup ItemLists(LooseKinds, MaxItems)
                      \cup ItemLists(NumberedKinds \cup LooseKinds, MaxMixed),
        after \in {<< >>, << Section("urgency_assessment", H_urgency_assessment,
                                     B_urgency_assessment) >>}}

SectionBody(key) ==
    CASE key = "symptom_analysis"          -> B_symptom_analysis
      [] key = "urgency_assessment"        -> B_urgency_assessment
      [] key = "immediate_recommendations" -> B_immediate_recommendations
      [] key = "red_flags"                 -> B_red_flags
      [] key = "self_care"                 -> B_self_care
      [] key = "follow_up"                 -> B_follow_up

SmallLists ==
    {<< Item("numbered", Cond_Flu, Rat_plain), Item("numbered", Cond_Cold, Rat_mild) >>,
     << Item("bullet", Cond_Flu, << >>), Item("paren", Cond_Cold, << >>) >>,
     << Item("prose", Cond_Flu, << >>), Item("prose", Cond_Cold, << >>) >>}

\* every subset of the seven sections filled and the others absent, and the
\* same with one of the sections blank
SectionChoices ==
    [1..7 -> {"absent", "text"}]
        \cup {[h EXCEPT ![k] = "blank"] : h \in [1..7 -> {"absent", "text"}], k \in 1..7}

Reverse(s) == [n \in 1..Len(s) |-> s[Len(s) + 1 - n]]

\* each of the seven sections absent, blank or filled; headings as the
\* prompt spells them or in lower case; in the prompt's order or reversed
SectionDocs ==
    {LET all == [k \in 1..7 |->
                   Section(sections[k].key,
                           IF lower THEN Lower(sections[k].heading)
                                    ELSE sections[k].heading,
                           IF how[k] = "blank" THEN B_blank
                           ELSE IF sections[k].key = "differential_diagnosis"
                                THEN RenderItems(its)
                                ELSE SectionBody(sections[k].key))]
         present(sec) == \E k \in 1..7 : sections[k].key = sec.key /\ how[k] # "absent"
         kept == SelectSeq(all, present)
     IN  [pre   |-> Preamble,
          secs  |-> IF backwards THEN Reverse(kept) ELSE kept,
          items |-> IF how[2] = "text" THEN its ELSE << >>] :
        how \in SectionChoices,
        its \in SmallLists,
        lower \in BOOLEAN,
        backwards \in BOOLEAN}

\* responses around the text "URGENCY ASSESSMENT\nThis is a semi-urgent case"
UrgencyDocs ==
    {[pre   |-> << >>,
      secs  |-> before \o << Section("urgency_assessment", heading,
                                     SemiUrgentCase \o tail) >> \o after,
      items |-> << >>] :
        heading \in {H_urgency_assessment, Lower(H_urgency_assessment), BareUrgencyHeading},
        tail    \in {<< >>, <<","," ","n","o","t"," ","a","n"," ","e","m","e",
              "r","g","e","n","c","y">>, Tail_urgent_care},
        before  \in {<< >>,
                     << Section("symptom_analysis", H_symptom_analysis, B_symptom_analysis) >>,
                     << Section("urgency_assessment", H_urgency_assessment,
                                B_urgency_assessment) >>},
        after   \in {<< >>, << Section("follow_up", H_follow_up, <<"G","o",
              " ","t","o"," ","t","h","e"," ","e","m","e","r","g","e","n","c",
              "y"," ","r","o","o","m"," ","i","f"," ","i","t"," ","w","o","r",
              "s","e","n","s">>) >>}}

Docs == ListDocs \cup SectionDocs \cup UrgencyDocs

InitParse ==
    /\ doc \in Docs
    /\ raw = Render(doc)
    /\ parsed = NoResult
    /\ symptoms = << >>
    /\ age = << >>
    /\ gender = << >>
    /\ language = "en"
    /\ backend = "ready"
    /\ pc = "parse"
    /\ calls = << >>
    /\ tags_reply = NoTagsReply
    /\ gen_reply = NoGenReply
    /\ model_status = NoStatus
    /\ llm_response = None
    /\ result = NoResult
    /\ medical_analyzer = MedicalAnalyzer
    /\ steps = << >>
    /\ request = NoForm
    /\ page = "none"
    /\ frames = << >>

\* one call of parse_llm_analysis on the response text
Parse ==
    /\ pc = "parse"
    /\ parsed' = parse_llm_analysis(Str(raw))
    /\ pc' = "parsed"
    /\ UNCHANGED << symptoms, age, gender, language, backend, calls, tags_reply,
                    gen_reply, model_status, llm_response, result, doc, raw >>
    /\ UNCHANGED << medical_analyzer, steps, request, page, frames >>

NextParse == Parse

SpecParse == InitParse /\ [][NextParse]_vars

\* ------------------------------------------------------------------------
\* parse_llm_analysis on responses that depart from the prompt's format
\* ------------------------------------------------------------------------

\* most words of a generated urgency assessment
MaxWords == 3

\* words a model puts in its urgency assessment: 'EMERGENCY', 'Urgent',
\* 'semi-urgent', 'Semi', 'routine care'
LevelWords ==
    {<<"E","M","E","R","G","E","N","C","Y">>,
     <<"U","r","g","e","n","t">>,
     <<"s","e","m","i","-","u","r","g","e","n","t">>,
     <<"S","e","m","i">>,
     <<"r","o","u","t","i","n","e"," ","c","a","r","e">>}

\* the words of a sequence, a space between them
RECURSIVE JoinWords(_)
JoinWords(ws) ==
    IF ws = << >> THEN << >>
    ELSE IF Len(ws) = 1 THEN ws[1]
    ELSE ws[1] \o <<" ">> \o JoinWords(Tail(ws))

\* an urgency section made of up to MaxWords words, alone or followed by
\* a section that names an emergency
LevelDocs ==
    {[pre   |-> Preamble,
      secs  |-> << Section("urgency_assessment", heading, JoinWords(ws)) >> \o after,
      items |-> << >>,
      words |-> ws] :
        ws      \in UNION {[1..k -> LevelWords] : k \in 0..MaxWords},
        heading \in {H_urgency_assessment},
        after   \in {<< >>, << Section("follow_up", H_follow_up,
                                       B_follow_up \o <<" ","o","r"," ","e","m","e","r",
                                       "g","e","n","c","y"," ","r","o","o","m">>) >>}}

\* lines that are indented or blank
IndentedKinds ==
    {Item("indented bullet", Cond_Flu, << >>),
     Item("indented paren", Cond_Cold, << >>),
     Item("blank", << >>, << >>)}

\* a differential-diagnosis section of up to MaxMixed lines of any kind
\* with at most one kind of numbered item, or of up to MaxItems lines that
\* are bullets or prose
LooseDocs ==
    {[pre   |-> << >>,
      secs  |-> << Section("differential_diagnosis", H_differential_diagnosis,
                           RenderItems(its)) >> \o after,
      items |-> its,
      words |-> << >>] :
        its   \in ItemLists(LooseKinds \cup IndentedKinds
                                \cup {Item("numbered", Cond_Flu, Rat_plain)}, MaxMixed)
                      \cup ItemLists({Item("bullet", Cond_Flu, << >>),
                                      Item("prose", Cond_Cold, << >>)}, MaxItems),
        after \in {<< >>, << Section("urgency_assessment", H_urgency_assessment,
                                     B_urgency_assessment) >>}}

InitVariants ==
    /\ doc \in LevelDocs \cup LooseDocs
    /\ raw = Render(doc)
    /\ parsed = NoResult
    /\ symptoms = << >>
    /\ age = << >>
    /\ gender = << >>
    /\ language = "en"
    /\ backend = "ready"
    /\ pc = "parse"
    /\ calls = << >>
    /\ tags_reply = NoTagsReply
    /\ gen_reply = NoGenReply
    /\ model_status = NoStatus
    /\ llm_response = None
    /\ result = NoResult
    /\ medical_analyzer = MedicalAnalyzer
    /\ steps = << >>
    /\ request = NoForm
    /\ page = "none"
    /\ frames = << >>

SpecVariants == InitVariants /\ [][NextParse]_vars

\* ------------------------------------------------------------------------
\* Properties of analyze_symptoms
\* ------------------------------------------------------------------------

\* record r has key k with value v
Has(r, k, v) == k \in DOMAIN r /\ r[k] = v

\* the text holds a phrase of the absolute-emergency list, in any case
HasEmergencyPhrase(text) ==
    \E p \in EmergencyPhrases : \E i \in 1..Len(text) : MatchAtIgnoreCase(text, p, i)

\* the generation call failed: it raised, or answered with a non-success status
GenFailed(reply) == reply.raised # "no" \/ reply.status_code # 200

\* C1: a symptom text holding an absolute-emergency phrase (in any case, as
\* a substring) never leads to a probe or a generation call, whatever the
\* backend does, and the record returned has urgency_level 'emergency' and
\* ai_generated false.
C1_EmergencyOverride ==
    HasEmergencyPhrase(symptoms) =>
        /\ calls = << >>
        /\ pc \in {"validate", "done"}
        /\ pc = "done" =>
              /\ Has(result, "urgency_level", S_emergency)
              /\ Has(result, "ai_generated", FALSE)

C1_Witness ==
    /\ pc = "done"
    /\ HasEmergencyPhrase(symptoms)
    /\ symptoms # Lower(symptoms)
    /\ backend = "unreachable"
    /\ Has(result, "urgency_level", S_emergency)
    /\ Has(result, "ai_generated", FALSE)

\* C2: for a non-blank text without emergency phrase, when the probe
\* reports a status other than ready, the record returned is an error
\* record with urgency_level 'urgent' and the probe is the only backend
\* call of the run.
C2_ProbeNotReady ==
    ( /\ pc = "done"
      /\ Strip(symptoms) # << >>
      /\ ~HasEmergencyPhrase(symptoms)
      /\ calls # << >>
      /\ model_status.status # ST_ready )
    => /\ calls = << "probe" >>
       /\ "error" \in DOMAIN result
       /\ Has(result, "urgency_level", S_urgent)

C2_Witness ==
    /\ pc = "done"
    /\ calls = << "probe" >>
    /\ model_status.status = ST_ollama_not_running
    /\ "error" \in DOMAIN result
    /\ Has(result, "urgency_level", S_urgent)

\* C3: when the probe was ready and the generation call fails (timeout,
\* connection failure, non-success status), the run is over and the record
\* is an error record with urgency_level 'urgent' and a non-empty
\* technical_details.
C3_GenerationFailure ==
    ( /\ calls = << "probe", "generate" >>
      /\ model_status.status = ST_ready
      /\ GenFailed(gen_reply) )
    => /\ pc = "done"
       /\ "error" \in DOMAIN result
       /\ Has(result, "urgency_level", S_urgent)
       /\ "technical_details" \in DOMAIN result
       /\ result.technical_details # << >>

C3_Witness ==
    /\ pc = "done"
    /\ gen_reply = GenTimeout
    /\ model_status.status = ST_ready
    /\ Has(result, "technical_details", MsgTimeout)
    /\ Has(result, "urgency_level", S_urgent)

\* the run ended without a model response text to assess
NoFullAssessment ==
    /\ pc = "done"
    /\ \/ Strip(symptoms) = << >>
       \/ calls = << "probe" >>
       \/ /\ calls = << "probe", "generate" >>
          /\ \/ GenFailed(gen_reply)
             \/ gen_reply.json = "invalid"
             \/ ~gen_reply.has_response
             \/ gen_reply.response.type # "str"

\* C4: every run that ends without a full AI-backed assessment (validation
\* failure, backend unavailable, generation error, success status without
\* response text, parse failure, unexpected exception) returns
\* urgency_level 'urgent'.
C4_FailureIsUrgent == NoFullAssessment => Has(result, "urgency_level", S_urgent)

\* C5: every returned record carrying an 'error' key also carries
\* urgency_level and immediate_recommendations.
C5_ErrorRecordRenderable ==
    (pc = "done" /\ "error" \in DOMAIN result)
    => {"urgency_level", "immediate_recommendations"} \subseteq DOMAIN result

\* ------------------------------------------------------------------------
\* Properties of parse_llm_analysis
\* ------------------------------------------------------------------------

\* indices of the sections of d written under heading k of `sections`
SectionsOf(d, k) ==
    {n \in 1..Len(d.secs) : Lower(d.secs[n].heading) = Lower(sections[k].heading)}

\* heading k occurs in the document
Present(d, k) == SectionsOf(d, k) # {}

\* the body written under the first occurrence of heading k
FirstBody(d, k) == d.secs[MinOf(SectionsOf(d, k))].body

\* every section of the document starts with "###", so that the text under
\* a heading ends where the next section starts
ProperHeadings(d) == \A n \in 1..Len(d.secs) : MatchAt(d.secs[n].heading, S_hashes, 1)

\* the six sections kept as text
TextSections == {1, 3, 4, 5, 6, 7}

\* the entries a list of numbered items describes, item by item
ListedEntries(items) ==
    [n \in 1..Len(items) |->
        [condition |-> Strip(items[n].cond), rationale |-> Strip(items[n].rat)]]

\* the document's differential diagnosis is a list of numbered items only
NumberedList(d) ==
    /\ Present(d, 2)
    /\ d.items # << >>
    /\ \A n \in 1..Len(d.items) : d.items[n].form = "numbered"

\* a digit followed by a period occurs in the text
HasDigitPeriod(text) ==
    \E i \in 1..(Len(text) - 1) : IsDigit(text[i]) /\ text[i + 1] = "."

\* C6: the differential_diagnosis list of the parsed record has at most 5
\* entries, whatever the response text.
C6_AtMostFiveDiagnoses ==
    pc = "parsed" => Len(parsed.differential_diagnosis) <= 5

\* C7: a differential-diagnosis section that is a numbered list of k items
\* '<n>. **<condition>** - <rationale>' yields exactly the k entries, in
\* order, each with the trimmed condition and the whole rationale of its
\* item, also when a rationale holds a digit followed by a period.
C7_NumberedListParsed ==
    (pc = "parsed" /\ NumberedList(doc))
    => parsed.differential_diagnosis = ListedEntries(doc.items)

\* C8 as stated: a response containing
\* "URGENCY ASSESSMENT\nThis is a semi-urgent case" has urgency_level
\* 'semi-urgent'.
C8_Original ==
    (pc = "parsed" /\ Contains(raw, SemiUrgentExample))
    => parsed.urgency_level = S_semi_urgent

\* C8 as amended: when the first '### URGENCY ASSESSMENT' heading (in any
\* case) is followed by "This is a semi-urgent case" and the section text up
\* to the next '###' holds no 'emergency' (in any case), urgency_level is
\* 'semi-urgent', not 'urgent'.
C8_SemiUrgent ==
    ( /\ pc = "parsed"
      /\ Present(doc, 3)
      /\ ProperHeadings(doc)
      /\ MatchAt(FirstBody(doc, 3), SemiUrgentCase, 1)
      /\ ~Contains(FirstBody(doc, 3), S_hashes)
      /\ ~Contains(Lower(FirstBody(doc, 3)), S_emergency) )
    => parsed.urgency_level = S_semi_urgent

C8_Witness ==
    /\ pc = "parsed"
    /\ Present(doc, 3)
    /\ FirstBody(doc, 3) = SemiUrgentCase \o Tail_urgent_care
    /\ Len(doc.secs) > 1
    /\ parsed.urgency_level = S_semi_urgent

\* all seven headings occur, each followed by text that is not blank
AllSevenFilled(d) ==
    /\ \A k \in 1..7 : Present(d, k)
    /\ \A n \in 1..Len(d.secs) : Strip(d.secs[n].body) # << >>

\* the trimmed text has a line that holds "**" or begins with a digit
HasListLine(text) ==
    LET lines == Split(Strip(text))
    IN  \E n \in 1..Len(lines) :
            \/ Contains(lines[n], S_stars)
            \/ (lines[n] # << >> /\ IsDigit(lines[n][1]))

FullRecordKeys ==
    {"symptom_analysis", "differential_diagnosis", "urgency_assessment",
     "urgency_level", "immediate_recommendations", "red_flags", "self_care",
     "follow_up", "full_llm_response", "ai_generated"}

\* C10: whatever headings are missing, the parse returns the full record
\* without error; a missing text section is the empty string, a missing
\* differential diagnosis the empty list, and the sections that are present
\* are extracted: the text ones as their trimmed text, a numbered list
\* whose rationales hold no digit followed by a period as its entries.
C10_MissingSections ==
    pc = "parsed" =>
        /\ DOMAIN parsed = FullRecordKeys
        /\ \A k \in 1..7 : ~Present(doc, k) => parsed[sections[k].key] = << >>
        /\ \A k \in TextSections :
              (Present(doc, k) /\ ProperHeadings(doc))
                  => parsed[sections[k].key] = Strip(FirstBody(doc, k))
        /\ (NumberedList(doc) /\ \A n \in 1..Len(doc.items) :
                                      ~HasDigitPeriod(doc.items[n].rat))
              => parsed.differential_diagnosis = ListedEntries(doc.items)

C10_Witness ==
    /\ pc = "parsed"
    /\ ~Present(doc, 2)
    /\ ~Present(doc, 1)
    /\ Present(doc, 7)
    /\ parsed.differential_diagnosis = << >>
    /\ parsed.symptom_analysis = << >>
    /\ parsed.follow_up = B_follow_up

\* ------------------------------------------------------------------------
\* Further properties of analyze_symptoms
\* ------------------------------------------------------------------------

\* the elements of a sequence
Range(seq) == {seq[i] : i \in DOMAIN seq}

\* the text is not blank and holds an absolute-emergency phrase: the run
\* takes the emergency-override path
OverridePath == Strip(symptoms) # << >> /\ HasEmergencyPhrase(symptoms)

\* C12: in every record analyze_symptoms returns, ai_generated is false if
\* and only if the run took the emergency-override path, and every record
\* that parse_llm_analysis produced from a response has ai_generated true.
C12_AiGenerated ==
    pc = "done" =>
        /\ Has(result, "ai_generated", FALSE) <=> OverridePath
        /\ "parse" \in Range(steps) => Has(result, "ai_generated", TRUE)

C12_Witness ==
    /\ pc = "done"
    /\ ~OverridePath
    /\ llm_response = Str(T_emergency)
    /\ "parse" \in Range(steps)
    /\ Has(result, "urgency_level", S_emergency)
    /\ Has(result, "ai_generated", TRUE)

\* the probe got an answer with a success status
ProbeSucceeded == ~tags_reply.raised /\ tags_reply.status_code = 200

\* C13: after the probe, the status record has a status among ready,
\* model_not_found, not_running, connection_error, it has the list of
\* available models, and its status is ready exactly when the probe
\* succeeded and an installed model carries the configured name.
C13_ModelStatus ==
    "probe" \in Range(calls) =>
        /\ model_status.status \in
              {ST_ready, ST_model_not_found, ST_connection_error,
               <<"n","o","t","_","r","u","n","n","i","n","g">>}
        /\ "available_models" \in DOMAIN model_status
        /\ model_status.status = ST_ready
              <=> /\ ProbeSucceeded
                  /\ \E n \in 1..Len(tags_reply.models) :
                        Contains(tags_reply.models[n], model_name)

\* C14: analyze_symptoms never raises: whatever the input and whatever the
\* backend does (probe failure, generation timeout, connection failure,
\* non-success status, malformed or null response body), a run that is
\* over has returned a record (one with an error message or an urgency
\* level), never an exception, and a run that made both calls is over.
C14_NeverRaises ==
    /\ pc \in {"validate", "probe", "generate", "done"}
    /\ calls = << "probe", "generate" >> => pc = "done"
    /\ pc = "done" => /\ "exception" \notin DOMAIN result
                      /\ DOMAIN result \cap {"error", "urgency_level"} # {}

C14_Witness ==
    /\ pc = "done"
    /\ gen_reply = GenBody(None)
    /\ "technical_error" \in DOMAIN result
    /\ Has(result, "urgency_level", S_urgent)

\* the generation call returned a response text with a success status
GenSucceeded ==
    /\ calls = << "probe", "generate" >>
    /\ ~GenFailed(gen_reply)
    /\ gen_reply.json = "object"
    /\ gen_reply.has_response
    /\ gen_reply.response.type = "str"

\* C17: the generation-error record is returned only if the generation
\* call errored: every response text returned with a success status is
\* parsed and yields a parsed assessment, whatever words it holds.
C17_ErrorOnlyIfCallErrored ==
    (pc = "done" /\ GenSucceeded)
    => /\ "parse" \in Range(steps)
       /\ "technical_details" \notin DOMAIN result
       /\ Has(result, "full_llm_response", gen_reply.response)

\* the order of the steps of a run
StepRank(step) ==
    CASE step = "validate"  -> 1
      [] step = "prefilter" -> 2
      [] step = "probe"     -> 3
      [] step = "generate"  -> 4
      [] step = "parse"     -> 5
      [] step = "merge"     -> 6

\* C18: the steps of a run occur in the order validate, pre-filter, probe,
\* generate, parse, merge metadata, each at most once; the backend is
\* probed at most once and asked to generate at most once, only after a
\* probe that reported ready; parsing happens only after a generation call.
C18_StepOrder ==
    /\ \A i, j \in DOMAIN steps : i < j => StepRank(steps[i]) < StepRank(steps[j])
    /\ calls \in {<< >>, << "probe" >>, << "probe", "generate" >>}
    /\ "generate" \in Range(calls) =>
          /\ model_status.status = ST_ready
          /\ ProbeSucceeded
    /\ "parse" \in Range(steps) => "generate" \in Range(steps)
    /\ "generate" \in Range(steps) <=> "generate" \in Range(calls)
    /\ "probe" \in Range(steps) <=> "probe" \in Range(calls)

C18_Witness ==
    /\ pc = "done"
    /\ steps = << "validate", "prefilter", "probe", "generate", "parse", "merge" >>
    /\ calls = << "probe", "generate" >>
    /\ model_status.status = ST_ready

\* ------------------------------------------------------------------------
\* Further properties of parse_llm_analysis
\* ------------------------------------------------------------------------

\* the ordered table of the urgency levels, on a lower-cased text
LevelTable(text) ==
    IF Contains(text, S_emergency) THEN S_emergency
    ELSE IF Contains(text, S_urgent) /\ ~Contains(text, S_semi) THEN S_urgent
    ELSE IF Contains(text, S_semi_urgent) THEN S_semi_urgent
    ELSE S_routine

\* the level the words of an assessment call for, word by word
LevelOfWords(ws) ==
    LET has(w) == \E n \in 1..Len(ws) : Lower(ws[n]) = w
    IN  IF has(S_emergency) THEN S_emergency
        ELSE IF has(S_urgent) /\ ~has(S_semi) /\ ~has(S_semi_urgent) THEN S_urgent
        ELSE IF has(S_semi_urgent) THEN S_semi_urgent
        ELSE S_routine

\* C16: the urgency level is the row of the ordered table that the
\* lower-cased urgency_assessment text selects (emergency; else urgent
\* without semi; else semi-urgent; else routine): it is one of the four
\* levels, it is the level the words of the section call for, and a text
\* that names 'semi-urgent' is never classified 'urgent'.
C16_UrgencyTable ==
    pc = "parsed" =>
        /\ parsed.urgency_level = LevelTable(Lower(parsed.urgency_assessment))
        /\ parsed.urgency_level \in {S_emergency, S_urgent, S_semi_urgent, S_routine}
        /\ Present(doc, 3) => parsed.urgency_level = LevelOfWords(doc.words)
        /\ Contains(Lower(parsed.urgency_assessment), S_semi_urgent)
              => parsed.urgency_level # S_urgent

C16_Witness ==
    /\ pc = "parsed"
    /\ Len(doc.words) = 2
    /\ Lower(doc.words[1]) = S_urgent
    /\ Lower(doc.words[2]) = S_semi_urgent
    /\ Len(doc.secs) = 2
    /\ parsed.urgency_level = S_semi_urgent

\* the first five elements of a sequence, or all when it has fewer
FirstFiveOf(seq) == [n \in 1..(IF Len(seq) < 5 THEN Len(seq) ELSE 5) |-> seq[n]]

\* the items of a list that are numbered items
NumberedItems(items) == {n \in 1..Len(items) : items[n].form = "numbered"}

\* line n of the trimmed section holds '**' or starts with a digit
KeptLine(items, n) ==
    \/ items[n].form \in {"bullet", "indented bullet", "paren"}
    \/ items[n].form = "indented paren" /\ \A m \in 1..(n - 1) : items[m].form = "blank"

\* the fallback entries of a list: its kept lines, trimmed, in order, with
\* an empty rationale
RECURSIVE LooseEntries(_, _)
LooseEntries(items, n) ==
    IF n > Len(items) THEN << >>
    ELSE (IF KeptLine(items, n)
          THEN << [condition |-> Strip(RenderItem(items[n], n)), rationale |-> << >>] >>
          ELSE << >>) \o LooseEntries(items, n + 1)

\* C19: when the differential-diagnosis section is present and the
\* numbered-list pattern matches no item, the result is the lines of the
\* trimmed section that hold '**' or start with a digit, trimmed, in
\* order, cut to the first 5, each with an empty rationale; when the
\* pattern matches an item, the result holds the numbered items only.
C19_FallbackTier ==
    (pc = "parsed" /\ Present(doc, 2))
    => IF NumberedItems(doc.items) = {}
       THEN parsed.differential_diagnosis = FirstFiveOf(LooseEntries(doc.items, 1))
       ELSE /\ Len(parsed.differential_diagnosis) = Cardinality(NumberedItems(doc.items))
            /\ \A n \in 1..Len(parsed.differential_diagnosis) :
                  /\ parsed.differential_diagnosis[n].condition = Cond_Flu
                  /\ parsed.differential_diagnosis[n].rationale # << >>

C19_Witness ==
    /\ pc = "parsed"
    /\ Len(doc.items) = 3
    /\ doc.items[1].form = "indented paren"
    /\ doc.items[2].form = "indented paren"
    /\ doc.items[3].form = "indented bullet"
    /\ Len(parsed.differential_diagnosis) = 2
    /\ parsed.differential_diagnosis[2].rationale = << >>

\* ------------------------------------------------------------------------
\* Properties of the /analyze handler
\* ------------------------------------------------------------------------

\* C20: whenever analyze_symptoms returned a record with urgency_level
\* 'emergency' (emergency override or model-classified emergency), the
\* handler renders the emergency page, not the results page.
C20_EmergencyPage ==
    (pc = "responded" /\ Has(result, "urgency_level", S_emergency))
    => page = "emergency.html"

\* ------------------------------------------------------------------------
\* Properties of calls on the shared analyzer
\* ------------------------------------------------------------------------

\* call c has called parse_llm_analysis and holds its record
HasParsed(c) ==
    /\ frames[c].pc = "done"
    /\ "full_llm_response" \in DOMAIN frames[c].result
    /\ "error" \notin DOMAIN frames[c].result

\* the raw text call c gave to parse_llm_analysis
RawText(c) ==
    IF frames[c].op = "parse" THEN frames[c].text
    ELSE IF HasParsed(c) THEN frames[c].gen_reply.response.val
    ELSE << >>

\* the records parse_llm_analysis has returned to caller c so far
ParsedRecords(c) ==
    (IF HasParsed(c) THEN {[k \in FullRecordKeys |-> frames[c].result[k]]} ELSE {})
    \cup (IF frames[c].first # NoResult THEN {frames[c].first} ELSE {})

Outcome(f, ts) ==
    IF Strip(f.symptoms) = << >> THEN ValidationRecord
    ELSE IF HasEmergencyPhrase(f.symptoms)
    THEN AddMetadata(create_emergency_override(f.symptoms), ts,
                     EffectiveLanguage(f.language), f.symptoms, f.age, f.gender)
    ELSE IF check_model_status(f.tags_reply).status # ST_ready
    THEN UnavailableRecord(check_model_status(f.tags_reply))
    ELSE AfterGeneration(query_llm_for_analysis(f.gen_reply), ts, f.language,
                         f.symptoms, f.age, f.gender)

\* C15: calls share no mutable state: in every interleaving of calls on
\* the one analyzer its fields stay as __init__ left them, and the record
\* of each analyze_symptoms call is the one its own arguments, the
\* backend's answers to its own probe and generation call and its own
\* clock reading determine.
C15_NoSharedState ==
    /\ medical_analyzer = MedicalAnalyzer
    /\ \A c \in DOMAIN frames :
          (frames[c].op = "analyze" /\ frames[c].pc = "done")
          => \E ts \in Timestamps : frames[c].result = Outcome(frames[c], ts)

C15_Witness ==
    /\ frames[1].op = "analyze"
    /\ frames[2].op = "analyze"
    /\ frames[1].symptoms # frames[2].symptoms
    /\ frames[1].pc = "done"
    /\ frames[2].pc = "done"
    /\ Has(frames[1].result, "urgency_level", S_emergency)
    /\ HasParsed(2)
    /\ Has(frames[2].result, "language", "sw")

====
